---- MODULE Spec2Model ----
(***************************************************************************)
(* Model of src/utils/excelProcessor.ts: the row classification and the    *)
(* key=value| field extraction of processExcelFile.                        *)
(*                                                                         *)
(* A JavaScript string is a sequence of one-character strings.  A cell is  *)
(* a record [t, v]: t = "null" (null or undefined), t = "str" (v is the    *)
(* string) or t = "num" (v is the number).  A row is a record              *)
(* [present, cells]; present = FALSE is an absent (undefined) row.         *)
(***************************************************************************)
EXTENDS Integers, Sequences, FiniteSets, TLC

VARIABLES
    pc,             \* position of the promise of processExcelFile
    config,         \* the ProcessConfig argument
    jsonData,       \* rows returned by sheet_to_json
    i,              \* loop counter of the row loop
    rawRow,         \* local of the loop body: the row of the last iteration
    status,         \* local of the loop body: its status (<<>> when skipped)
    newRow,         \* local of the loop body: its output row (<<>> when skipped)
    processedRows,  \* header followed by the output rows
    err,            \* message of the rejection
    text,           \* extractValues: argument text
    key,            \* extractValues: argument key
    lastIndex,      \* extractValues: regex.lastIndex
    matches,        \* extractValues: local matches
    epc,            \* extractValues: position ("exec" or "returned")
    calls,          \* the completed extractValues calls: text, key and result
    argRow,         \* getCellValue: argument row
    argIndex,       \* getCellValue: argument index
    cellValue,      \* getCellValue: returned value
    gpc,            \* getCellValue: position ("call" or "returned")
    file,           \* App: state file (<<>> is null)
    processing,     \* App: state processing
    processedData,  \* App: state processedData (<<>> is null)
    error,          \* App: state error (<<>> is null)
    apc,            \* App: position of handleProcess
    download,       \* App: the download last offered by handleDownload
    runFile,        \* App: the file captured by the running handleProcess
    tags,           \* TagInput: prop tags, a keyword or code list of App
    inputValue      \* TagInput: state inputValue

vars == <<pc, config, jsonData, i, rawRow, status, newRow, processedRows, err,
          text, key, lastIndex, matches, epc, calls,
          argRow, argIndex, cellValue, gpc,
          file, processing, processedData, error, apc, download, runFile,
          tags, inputValue>>
procVars == <<pc, config, jsonData, i, rawRow, status, newRow, processedRows, err>>
extractVars == <<text, key, lastIndex, matches, epc, calls>>
cellVars == <<argRow, argIndex, cellValue, gpc>>
tagVars == <<tags, inputValue>>
appVars == <<file, processing, processedData, error, apc, download, runFile,
             tags, inputValue>>

----
\* Bounds
MaxRows == 2
MaxLen == 6
MaxCells == 2
MaxIndex == 3
MaxCalls == 3
MaxPairRows == 3
MaxStepRows == 2
MaxTags == 2
MaxInput == 2
MaxPaste == 3

----
\* String primitives of the JavaScript runtime

Lowers == <<"a","b","c","d","e","f","g","h","i","j","k","l","m",
            "n","o","p","q","r","s","t","u","v","w","x","y","z">>
Uppers == <<"A","B","C","D","E","F","G","H","I","J","K","L","M",
            "N","O","P","Q","R","S","T","U","V","W","X","Y","Z">>

toUpperCaseChar(c) ==
    IF \E n \in 1..26 : Lowers[n] = c
    THEN Uppers[CHOOSE n \in 1..26 : Lowers[n] = c]
    ELSE c

toLowerCaseChar(c) ==
    IF \E n \in 1..26 : Uppers[n] = c
    THEN Lowers[CHOOSE n \in 1..26 : Uppers[n] = c]
    ELSE c

RECURSIVE toUpperCase(_)
toUpperCase(s) ==
    IF s = <<>> THEN <<>> ELSE <<toUpperCaseChar(Head(s))>> \o toUpperCase(Tail(s))

RECURSIVE toLowerCase(_)
toLowerCase(s) ==
    IF s = <<>> THEN <<>> ELSE <<toLowerCaseChar(Head(s))>> \o toLowerCase(Tail(s))

isWhiteSpace(c) == c = " "

RECURSIVE trimStart(_)
trimStart(s) ==
    IF s # <<>> /\ isWhiteSpace(Head(s)) THEN trimStart(Tail(s)) ELSE s

RECURSIVE trimEnd(_)
trimEnd(s) ==
    IF s # <<>> /\ isWhiteSpace(s[Len(s)]) THEN trimEnd(SubSeq(s, 1, Len(s) - 1)) ELSE s

trim(s) == trimEnd(trimStart(s))

RECURSIVE startsWithAt(_, _, _)
startsWithAt(s, sub, p) ==
    \/ sub = <<>>
    \/ /\ p < Len(s)
       /\ s[p + 1] = Head(sub)
       /\ startsWithAt(s, Tail(sub), p + 1)

RECURSIVE indexOfFrom(_, _, _)
indexOfFrom(s, sub, p) ==
    IF p + Len(sub) > Len(s) THEN -1
    ELSE IF startsWithAt(s, sub, p) THEN p
    ELSE indexOfFrom(s, sub, p + 1)

includes(s, sub) == indexOfFrom(s, sub, 0) # -1

Digits == <<"0","1","2","3","4","5","6","7","8","9">>

RECURSIVE NumberToString(_)
NumberToString(n) ==
    IF n < 10 THEN <<Digits[n + 1]>>
    ELSE NumberToString(n \div 10) \o <<Digits[(n % 10) + 1]>>

String(val) == IF val.t = "num" THEN NumberToString(val.v[1]) ELSE val.v

----
\* getCellValue

\* variant: a missing cell is not tested and String(undefined) is returned
getCellValue_NoDefault(row, index) ==
    IF ~row.present \/ index < 0 \/ index >= Len(row.cells) THEN <<"u","n","d","e","f","i","n","e","d">>
    ELSE LET val == row.cells[index + 1]
         IN  IF val.t = "null" THEN <<"n","u","l","l">> ELSE trim(String(val))

\* variant: the string form is returned as it is
getCellValue_NoTrim(row, index) ==
    IF ~row.present \/ index < 0 \/ index >= Len(row.cells) THEN <<>>
    ELSE LET val == row.cells[index + 1]
         IN  IF val.t = "null" THEN <<>> ELSE String(val)

getCellValue(row, index) ==
    IF ~row.present \/ index < 0 \/ index >= Len(row.cells) THEN <<>>
    ELSE LET val == row.cells[index + 1]
         IN  IF val.t = "null" THEN <<>> ELSE trim(String(val))

----
\* extractValues: new RegExp(`${key}=([^|]+)\\|`, 'gi') and its exec loop

\* variant: the regex is built without the 'i' flag
Canonicalize_NoFlag(c) == c

\* the 'i' flag compares the canonical (upper case) forms of two characters
Canonicalize(c) == toUpperCaseChar(c)

\* the literal characters of key, matched from 0-based position p
RECURSIVE MatchLiteral(_, _, _)
MatchLiteral(s, lit, p) ==
    \/ lit = <<>>
    \/ /\ p < Len(s)
       /\ Canonicalize(s[p + 1]) = Canonicalize(Head(lit))
       /\ MatchLiteral(s, Tail(lit), p + 1)

\* [^|]+ is greedy: the position after the longest run without "|" from p
RECURSIVE MatchClass(_, _)
MatchClass(s, p) ==
    IF p < Len(s) /\ s[p + 1] # "|" THEN MatchClass(s, p + 1) ELSE p

\* one attempt of the pattern at position p: the end of the match, or -1.
\* Backtracking into a shorter run cannot succeed, because the character
\* after a shorter run is not "|".
MatchAt(s, k, p) ==
    LET q == p + Len(k)
    IN  IF MatchLiteral(s, k, p) /\ q < Len(s) /\ s[q + 1] = "="
        THEN LET e == MatchClass(s, q + 1)
             IN  IF e > q + 1 /\ e < Len(s) /\ s[e + 1] = "|" THEN e + 1 ELSE -1
        ELSE -1

NoMatch == [found |-> FALSE, index |-> 0, end |-> 0, group |-> <<>>]

\* regex.exec(text) of a global regex: the leftmost match at or after from
RECURSIVE RegexExec(_, _, _)
RegexExec(s, k, from) ==
    IF from > Len(s) THEN NoMatch
    ELSE IF MatchAt(s, k, from) # -1
    THEN [found |-> TRUE, index |-> from, end |-> MatchAt(s, k, from),
          group |-> SubSeq(s, from + Len(k) + 2, MatchAt(s, k, from) - 1)]
    ELSE RegexExec(s, k, from + 1)

\* the body of the while loop: if (match[1]) matches.push(match[1].trim())
PushMatch(ms, m) == IF m.group # <<>> THEN Append(ms, trim(m.group)) ELSE ms

RECURSIVE ExecLoop(_, _, _, _)
ExecLoop(s, k, from, ms) ==
    LET m == RegexExec(s, k, from)
    IN  IF ~m.found THEN ms ELSE ExecLoop(s, k, m.end, PushMatch(ms, m))

extractValues(s, k) == ExecLoop(s, k, 0, <<>>)

----
\* Status determination of one row (processExcelFile, loop body)

SPL == <<"S","P","L">>
HighRisk == <<"H","i","g","h"," ","R","i","s","k">>
APRV == <<"A","P","R","V">>
ZKWD == <<"Z","K","W","D">>
ZEMB == <<"Z","E","M","B">>
ZKWDandZEMB == <<"Z","K","W","D"," ","&"," ","Z","E","M","B">>
NoAdd == <<"N","o"," ","a","d","d">>

combinedSearchText(rawW, rawAA) == toUpperCase(rawW \o <<" ">> \o rawAA)

\* variant: either of the two columns blank
isNoAdd_Either(rawL, rawO) == rawL = <<>> \/ rawO = <<>>

isNoAdd(rawL, rawO) == rawL = <<>> /\ rawO = <<>>

\* variant: the keyword is not tested for emptiness
isHighRisk_NoGuard(cfg, rawI) ==
    \E n \in 1..Len(cfg.highRiskKeywords) :
        includes(toLowerCase(rawI), toLowerCase(cfg.highRiskKeywords[n]))

isHighRisk(cfg, rawI) ==
    \E n \in 1..Len(cfg.highRiskKeywords) :
        LET kw == cfg.highRiskKeywords[n]
        IN  kw # <<>> /\ includes(toLowerCase(rawI), toLowerCase(kw))

\* variant: partial match of the code, as for the keywords
isAPRV_Partial(cfg, rawO) ==
    \E n \in 1..Len(cfg.aprvCodes) :
        LET code == cfg.aprvCodes[n]
        IN  code # <<>> /\ includes(toUpperCase(rawO), toUpperCase(code))

isAPRV(cfg, rawO) ==
    \E n \in 1..Len(cfg.aprvCodes) :
        LET code == cfg.aprvCodes[n]
        IN  code # <<>> /\ toUpperCase(rawO) = toUpperCase(code)

MarkerStatus(hasZKWD, hasZEMB) ==
    IF hasZKWD /\ hasZEMB THEN ZKWDandZEMB ELSE IF hasZKWD THEN ZKWD ELSE ZEMB

\* variant: status starts empty and the final else branch is missing
StatusOf_NoDefault(cfg, rawI, rawL, rawO, rawW, rawAA) ==
    LET hasZKWD == includes(combinedSearchText(rawW, rawAA), ZKWD)
        hasZEMB == includes(combinedSearchText(rawW, rawAA), ZEMB)
    IN  IF isHighRisk(cfg, rawI) THEN HighRisk
        ELSE IF isAPRV(cfg, rawO) THEN APRV
        ELSE IF hasZKWD \/ hasZEMB THEN MarkerStatus(hasZKWD, hasZEMB)
        ELSE IF isNoAdd(rawL, rawO) THEN NoAdd
        ELSE <<>>

\* variant: the APRV test precedes the High Risk test
StatusOf_APRVFirst(cfg, rawI, rawL, rawO, rawW, rawAA) ==
    LET hasZKWD == includes(combinedSearchText(rawW, rawAA), ZKWD)
        hasZEMB == includes(combinedSearchText(rawW, rawAA), ZEMB)
    IN  IF isAPRV(cfg, rawO) THEN APRV
        ELSE IF isHighRisk(cfg, rawI) THEN HighRisk
        ELSE IF hasZKWD \/ hasZEMB THEN MarkerStatus(hasZKWD, hasZEMB)
        ELSE IF isNoAdd(rawL, rawO) THEN NoAdd
        ELSE SPL

\* variant: the single markers are tested before the combination
StatusOf_SingleFirst(cfg, rawI, rawL, rawO, rawW, rawAA) ==
    LET hasZKWD == includes(combinedSearchText(rawW, rawAA), ZKWD)
        hasZEMB == includes(combinedSearchText(rawW, rawAA), ZEMB)
    IN  IF isHighRisk(cfg, rawI) THEN HighRisk
        ELSE IF isAPRV(cfg, rawO) THEN APRV
        ELSE IF hasZKWD THEN ZKWD
        ELSE IF hasZEMB THEN ZEMB
        ELSE IF isNoAdd(rawL, rawO) THEN NoAdd
        ELSE SPL

\* variant: the "No add" test precedes the marker test
StatusOf_NoAddFirst(cfg, rawI, rawL, rawO, rawW, rawAA) ==
    LET hasZKWD == includes(combinedSearchText(rawW, rawAA), ZKWD)
        hasZEMB == includes(combinedSearchText(rawW, rawAA), ZEMB)
    IN  IF isHighRisk(cfg, rawI) THEN HighRisk
        ELSE IF isAPRV(cfg, rawO) THEN APRV
        ELSE IF isNoAdd(rawL, rawO) THEN NoAdd
        ELSE IF hasZKWD \/ hasZEMB THEN MarkerStatus(hasZKWD, hasZEMB)
        ELSE SPL

StatusOf(cfg, rawI, rawL, rawO, rawW, rawAA) ==
    LET hasZKWD == includes(combinedSearchText(rawW, rawAA), ZKWD)
        hasZEMB == includes(combinedSearchText(rawW, rawAA), ZEMB)
    IN  IF isHighRisk(cfg, rawI) THEN HighRisk
        ELSE IF isAPRV(cfg, rawO) THEN APRV
        ELSE IF hasZKWD \/ hasZEMB
             THEN IF hasZKWD /\ hasZEMB THEN ZKWDandZEMB
                  ELSE IF hasZKWD THEN ZKWD
                  ELSE ZEMB
        ELSE IF isNoAdd(rawL, rawO) THEN NoAdd
        ELSE SPL

matchname == <<"m","a","t","c","h","n","a","m","e">>
denialtype == <<"d","e","n","i","a","l","t","y","p","e">>
splid == <<"s","p","l","i","d">>

\* variant: the columns are joined as for the marker search
rawCombined_Space(rawW, rawAA) == rawW \o <<" ">> \o rawAA \o <<"|">>

rawCombined(rawW, rawAA) == rawW \o <<"|">> \o rawAA \o <<"|">>

\* array[n] || "" for the 0-based index n
Slot(arr, n) == IF n < Len(arr) /\ arr[n + 1] # <<>> THEN arr[n + 1] ELSE <<>>

\* variant: the last five values are kept
Slots_LastFive(arr) ==
    LET skip == IF Len(arr) > 5 THEN Len(arr) - 5 ELSE 0
    IN  <<Slot(arr, skip), Slot(arr, skip + 1), Slot(arr, skip + 2),
          Slot(arr, skip + 3), Slot(arr, skip + 4)>>

Slots(arr) == <<Slot(arr, 0), Slot(arr, 1), Slot(arr, 2), Slot(arr, 3), Slot(arr, 4)>>

\* variant: the first search column is read one column to the left
NewRow_Shifted(cfg, row) ==
    LET rawC == getCellValue(row, 2)
        rawD == getCellValue(row, 3)
        rawI == getCellValue(row, 8)
        rawL == getCellValue(row, 11)
        rawO == getCellValue(row, 14)
        rawW == getCellValue(row, 21)
        rawAA == getCellValue(row, 26)
        matchNames == extractValues(rawCombined(rawW, rawAA), matchname)
        denialTypes == extractValues(rawCombined(rawW, rawAA), denialtype)
        splids == extractValues(rawCombined(rawW, rawAA), splid)
    IN  <<StatusOf(cfg, rawI, rawL, rawO, rawW, rawAA), rawC, rawD, rawI, rawL, rawO>>
        \o Slots(matchNames) \o Slots(denialTypes) \o Slots(splids)

NewRow(cfg, row) ==
    LET rawC == getCellValue(row, 2)
        rawD == getCellValue(row, 3)
        rawI == getCellValue(row, 8)
        rawL == getCellValue(row, 11)
        rawO == getCellValue(row, 14)
        rawW == getCellValue(row, 22)
        rawAA == getCellValue(row, 26)
        matchNames == extractValues(rawCombined(rawW, rawAA), matchname)
        denialTypes == extractValues(rawCombined(rawW, rawAA), denialtype)
        splids == extractValues(rawCombined(rawW, rawAA), splid)
    IN  <<StatusOf(cfg, rawI, rawL, rawO, rawW, rawAA), rawC, rawD, rawI, rawL, rawO>>
        \o Slots(matchNames) \o Slots(denialTypes) \o Slots(splids)

RowLabel(prefix, n) == prefix \o <<" ", Digits[n + 1]>>

newHeader ==
    << <<"S","t","a","t","u","s">>,
       <<"F","i","l","e"," ","n","a","m","e">>,
       <<"R","e","f"," ","N","o">>,
       <<"C","u","s","t","o","m","e","r"," ","N","a","m","e">>,
       <<"C","i","t","y">>,
       <<"C","T","R">> >>
    \o [n \in 1..5 |-> RowLabel(<<"R","P","L">>, n)]
    \o [n \in 1..5 |-> RowLabel(<<"D","e","n","i","a","l"," ","T","y","p","e">>, n)]
    \o [n \in 1..5 |-> RowLabel(<<"S","p","l","i","d">>, n)]

\* variant: a row whose mapped and unmapped cells are all blank is skipped
SkipRow_Blank(row) ==
    \/ ~row.present
    \/ \A n \in 0..(Len(row.cells) - 1) : getCellValue(row, n) = <<>>

\* if (!rawRow || rawRow.length === 0) continue;
SkipRow(row) == ~row.present \/ Len(row.cells) = 0

----
\* Inputs: cells, rows, sheets, workbooks and configurations

Null == [t |-> "null", v |-> <<>>]
Str(s) == [t |-> "str", v |-> s]
Num(n) == [t |-> "num", v |-> <<n>>]

AbsentRow == [present |-> FALSE, cells |-> <<>>]
Row(cells) == [present |-> TRUE, cells |-> cells]

\* a row of len cells with the given cells in the mapped columns
MkRow(len, cI, cL, cO, cW, cAA) ==
    Row([n \in 1..len |->
            CASE n = 3 -> Str(<<"f",".","x">>)
              [] n = 4 -> Num(12)
              [] n = 9 -> cI
              [] n = 12 -> cL
              [] n = 15 -> cO
              [] n = 23 -> cW
              [] n = 27 -> cAA
              [] OTHER -> IF n % 2 = 0 THEN Null ELSE Str(<<>>)])

\* a row of len cells with the given cells in the mapped columns and fill in
\* every other column
MkRowFill(len, fill, cC, cD, cI, cL, cO, cW, cAA) ==
    Row([n \in 1..len |->
            CASE n = 3 -> cC
              [] n = 4 -> cD
              [] n = 9 -> cI
              [] n = 12 -> cL
              [] n = 15 -> cO
              [] n = 23 -> cW
              [] n = 27 -> cAA
              [] OTHER -> fill])

NameCells ==
    { Null,
      Str(<<"A","c","m","e">>),
      Str(<<"a"," ","s","A","n">>),
      Str(<<" ","E","M","B"," ">>) }

CityCells == { Str(<<>>), Str(<<" ">>), Str(<<"O","s","l","o">>) }

CtrCells ==
    { Null, Str(<<>>), Str(<<"R","U">>), Str(<<" ","r","u"," ">>),
      Str(<<"R","U","S">>), Num(7) }

TextWCells ==
    { Null,
      Str(<<"z","k","w","d","=","1","|">>),
      Str(<<"Z","E","M","B">>),
      Str(<<"Z","K">>),
      Str(<<"m","a","t","c","h","n","a","m","e","=","J","o","|",
            "M","a","t","c","h","N","a","m","e","="," ","|",
            "m","a","t","c","h","n","a","m","e","=","A","l">>) }

TextAACells ==
    { Null,
      Str(<<"W","D">>),
      Str(<<"Z","e","m","b","=","1","|","s","p","l","i","d","=","9">>),
      Str(<<"z","k","w","d"," ","z","e","m","b"," ",
            "d","e","n","i","a","l","t","y","p","e","=","F","|">>) }

WideRows ==
    { MkRow(27, cI, cL, cO, cW, cAA) :
        cI \in NameCells, cL \in CityCells, cO \in CtrCells,
        cW \in TextWCells, cAA \in TextAACells }

\* rows with many occurrences of the field keys, with an unclosed last
\* occurrence, and with text in the columns that are not mapped
DenseRows ==
    { MkRowFill(27, Null, Str(<<" ","a",".","x","l","s"," ">>), Num(40), Str(<<"A","c","m","e">>), Str(<<"O","s","l","o">>), Str(<<"D","E">>),
                Str(<<"s","p","l","i","d","=","1","|","s","p","l","i","d","=","2","|","m","a","t","c","h","n","a","m","e","=","a","|","s","p","l","i","d","=","3","|","S","p","l","i","d","="," ","4"," ","|","m","a","t","c","h","n","a","m","e","=","b">>),
                Str(<<"S","P","L","I","D","=","5","|","m","a","t","c","h","n","a","m","e","=","c","|","s","p","l","i","d","=","6","|","s","p","l","i","d","=","7">>)),
      MkRowFill(27, Str(<<"Z","K","W","D"," ","s","a","n"," ","R","U"," ","s","p","l","i","d","=","9","|">>), Str(<<"b">>), Null, Str(<<"A","c","m","e">>), Str(<<"O","s","l","o">>), Str(<<"D","E">>),
                Null, Str(<<"m","a","t","c","h","n","a","m","e","=","x">>)),
      MkRowFill(30, Str(<<"z","e","m","b","|","m","a","t","c","h","n","a","m","e","=","y","|">>), Null, Str(<<" ","7"," ">>), Str(<<"A","c","m","e">>), Str(<<>>), Str(<<>>),
                Str(<<"d","e","n","i","a","l","t","y","p","e","=","F">>), Str(<<"x","|","d","e","n","i","a","l","t","y","p","e","=","G">>)),
      MkRowFill(23, Num(7), Str(<<"c">>), Str(<<"d">>), Null, Null, Null,
                Str(<<" ","x","|","d","e","n","i","a","l","t","y","p","e","="," ","F"," ">>), Null) }

NarrowRows ==
    { AbsentRow,
      Row(<<>>),
      Row(<<Str(<<>>)>>),
      Row(<<Null, Str(<<" ">>), Null>>),
      MkRow(15, Str(<<"a"," ","s","A","n">>), Str(<<>>), Str(<<"R","U">>), Null, Null),
      MkRow(27, Null, Str(<<"O","s","l","o">>), Null,
            Str(<<"s","p","l","i","d","=","9","|","Z","E","M","B">>), Null) }

RECURSIVE SeqsUpTo(_, _)
SeqsUpTo(S, n) ==
    IF n = 0 THEN {<<>>}
    ELSE LET shorter == SeqsUpTo(S, n - 1)
         IN  shorter \cup {Append(q, x) : q \in shorter, x \in S}

Sheets ==
    {<<r>> : r \in WideRows} \cup {<<r>> : r \in DenseRows}
        \cup SeqsUpTo(NarrowRows, MaxRows)

Workbooks ==
    { [hasData |-> FALSE, nSheets |-> 0, rows |-> <<>>],
      [hasData |-> TRUE, nSheets |-> 0, rows |-> <<>>] }
    \cup { [hasData |-> TRUE, nSheets |-> 1, rows |-> sh] : sh \in Sheets }

KeywordLists ==
    { <<>>,
      << <<>> >>,
      << <<"S","A","N">> >>,
      << <<>>, <<"e","m","b">>, <<"s","a","n">> >>,
      << <<"M","E">> , <<"x">> >> }

CodeLists ==
    { <<>>,
      << <<>> >>,
      << <<"R","U">> >>,
      << <<"u","a">>, <<"R","u">>, <<>> >>,
      << <<"7">>, <<"R">> >> }

Configs ==
    { [highRiskKeywords |-> kws, aprvCodes |-> codes] :
        kws \in KeywordLists, codes \in CodeLists }

\* texts of the extraction specification: concatenations of tokens
ExtractTokens == { <<"k","=">>, <<"K">>, <<"=">>, <<"|">>, <<" ">> }
ExtractKeys == { <<"k">>, <<"K">> }

RECURSIVE TextsUpTo(_)
TextsUpTo(n) ==
    IF n = 0 THEN {<<>>}
    ELSE LET shorter == TextsUpTo(n - 1)
         IN  shorter \cup {q \o tok : q \in shorter, tok \in ExtractTokens}

----
\* processExcelFile

ProcIdle ==
    /\ pc = "idle"
    /\ config = [highRiskKeywords |-> <<>>, aprvCodes |-> <<>>]
    /\ jsonData = <<>>
    /\ i = 0
    /\ rawRow = AbsentRow
    /\ status = <<>>
    /\ newRow = <<>>
    /\ processedRows = <<>>
    /\ err = ""

ExtractIdle ==
    /\ text = <<>>
    /\ key = <<>>
    /\ lastIndex = 0
    /\ matches = <<>>
    /\ epc = "idle"
    /\ calls = <<>>

CellIdle ==
    /\ argRow = AbsentRow
    /\ argIndex = 0
    /\ cellValue = <<>>
    /\ gpc = "idle"

AppIdle ==
    /\ file = <<>>
    /\ processing = FALSE
    /\ processedData = <<>>
    /\ error = <<>>
    /\ apc = "idle"
    /\ download = <<>>
    /\ runFile = <<>>
    /\ tags = <<>>
    /\ inputValue = <<>>

\* the state after processExcelFile(file, config) called readAsArrayBuffer
Init ==
    /\ pc = "reading"
    /\ config \in Configs
    /\ jsonData = <<>>
    /\ i = 0
    /\ rawRow = AbsentRow
    /\ status = <<>>
    /\ newRow = <<>>
    /\ processedRows = <<>>
    /\ err = ""
    /\ ExtractIdle
    /\ CellIdle
    /\ AppIdle

Reject(msg) ==
    /\ pc' = "rejected"
    /\ err' = msg
    /\ UNCHANGED <<config, jsonData, i, rawRow, status, newRow, processedRows>>

\* reader.onerror
ReaderOnError ==
    /\ pc = "reading"
    /\ Reject("File reading failed")
    /\ UNCHANGED <<extractVars, cellVars, appVars>>

\* variant: the loop starts after an assumed header row
OnLoad_AfterHeader(wb) ==
    IF ~wb.hasData THEN Reject("Could not read file data")
    ELSE IF wb.nSheets = 0 THEN Reject("The Excel file contains no readable sheets.")
    ELSE IF Len(wb.rows) = 0 THEN Reject("The selected Excel sheet is empty.")
    ELSE /\ pc' = "loop"
         /\ jsonData' = wb.rows
         /\ processedRows' = <<newHeader>>
         /\ i' = 1
         /\ UNCHANGED <<config, rawRow, status, newRow, err>>

\* the body of reader.onload for the workbook wb, up to the row loop
OnLoad(wb) ==
    IF ~wb.hasData THEN Reject("Could not read file data")
    ELSE IF wb.nSheets = 0 THEN Reject("The Excel file contains no readable sheets.")
    ELSE IF Len(wb.rows) = 0 THEN Reject("The selected Excel sheet is empty.")
    ELSE /\ pc' = "loop"
         /\ jsonData' = wb.rows
         /\ processedRows' = <<newHeader>>
         /\ i' = 0
         /\ UNCHANGED <<config, rawRow, status, newRow, err>>

\* reader.onload up to the start of the row loop
ReaderOnLoad ==
    /\ pc = "reading"
    /\ \E wb \in Workbooks : OnLoad(wb)
    /\ UNCHANGED <<extractVars, cellVars, appVars>>

\* variant: the status of a row after a High Risk row stays High Risk
RowStep_Sticky ==
    /\ pc = "loop"
    /\ i < Len(jsonData)
    /\ rawRow' = jsonData[i + 1]
    /\ IF SkipRow(jsonData[i + 1])
       THEN /\ status' = <<>>
            /\ newRow' = <<>>
            /\ UNCHANGED processedRows
       ELSE /\ newRow' = IF status = HighRisk
                         THEN [NewRow(config, jsonData[i + 1]) EXCEPT ![1] = HighRisk]
                         ELSE NewRow(config, jsonData[i + 1])
            /\ status' = newRow'[1]
            /\ processedRows' = Append(processedRows, newRow')
    /\ i' = i + 1
    /\ UNCHANGED <<pc, config, jsonData, err>>
    /\ UNCHANGED <<extractVars, cellVars, appVars>>

\* one iteration of the row loop
RowStep ==
    /\ pc = "loop"
    /\ i < Len(jsonData)
    /\ rawRow' = jsonData[i + 1]
    /\ IF SkipRow(jsonData[i + 1])
       THEN /\ status' = <<>>
            /\ newRow' = <<>>
            /\ UNCHANGED processedRows
       ELSE /\ newRow' = NewRow(config, jsonData[i + 1])
            /\ status' = newRow'[1]
            /\ processedRows' = Append(processedRows, newRow')
    /\ i' = i + 1
    /\ UNCHANGED <<pc, config, jsonData, err>>
    /\ UNCHANGED <<extractVars, cellVars, appVars>>

\* after the loop: the report is written and the promise resolved
Resolve ==
    /\ pc = "loop"
    /\ i = Len(jsonData)
    /\ pc' = "resolved"
    /\ UNCHANGED <<config, jsonData, i, rawRow, status, newRow, processedRows, err>>
    /\ UNCHANGED <<extractVars, cellVars, appVars>>

Next == ReaderOnError \/ ReaderOnLoad \/ RowStep \/ Resolve

Spec == Init /\ [][Next]_vars

----
\* extractValues, one regex.exec call per step

InitExtract ==
    /\ ProcIdle
    /\ CellIdle
    /\ AppIdle
    /\ calls = <<>>
    /\ text \in TextsUpTo(MaxLen)
    /\ key \in ExtractKeys
    /\ lastIndex = 0
    /\ matches = <<>>
    /\ epc = "exec"

\* variant: the expression lacks the g flag, so exec always starts at 0
ExecMatch_NoGlobal ==
    /\ epc = "exec"
    /\ LET m == RegexExec(text, key, 0)
       IN  /\ m.found
           /\ matches' = PushMatch(matches, m)
           /\ lastIndex' = 0
    /\ UNCHANGED <<text, key, epc, calls>>
    /\ UNCHANGED <<procVars, cellVars, appVars>>

\* regex.exec found a match: the loop body runs
ExecMatch ==
    /\ epc = "exec"
    /\ LET m == RegexExec(text, key, lastIndex)
       IN  /\ m.found
           /\ matches' = PushMatch(matches, m)
           /\ lastIndex' = m.end
    /\ UNCHANGED <<text, key, epc, calls>>
    /\ UNCHANGED <<procVars, cellVars, appVars>>

\* regex.exec returned null: lastIndex is reset and matches returned
ExecNull ==
    /\ epc = "exec"
    /\ ~RegexExec(text, key, lastIndex).found
    /\ lastIndex' = 0
    /\ epc' = "returned"
    /\ calls' = Append(calls, [text |-> text, key |-> key, result |-> matches])
    /\ UNCHANGED <<text, key, matches>>
    /\ UNCHANGED <<procVars, cellVars, appVars>>

NextExtract == ExecMatch \/ ExecNull

SpecExtract == InitExtract /\ [][NextExtract]_vars

\* the loop of exec calls returns what the operator extractValues computes
ExtractAgrees == epc = "returned" => matches = extractValues(text, key)

TypeOK ==
    /\ pc \in {"idle", "reading", "loop", "row", "resolved", "rejected"}
    /\ i \in 0..Len(jsonData)
    /\ epc \in {"idle", "exec", "returned"}
    /\ lastIndex \in 0..Len(text)

----
\* Vocabulary of the properties, stated without the operators of the model

Min(S) == CHOOSE x \in S : \A y \in S : x <= y
Max(S) == CHOOSE x \in S : \A y \in S : y <= x

SameLetter(a, b) == a = b \/ \E n \in 1..26 : {a, b} = {Lowers[n], Uppers[n]}

OccursIgnoringCase(sub, s) ==
    \E p \in 0..(Len(s) - Len(sub)) :
        \A n \in 1..Len(sub) : SameLetter(s[p + n], sub[n])

EqualIgnoringCase(a, b) ==
    Len(a) = Len(b) /\ \A n \in 1..Len(a) : SameLetter(a[n], b[n])

\* s without its leading and trailing white space
Trimmed(s) ==
    LET solid == {n \in 1..Len(s) : s[n] # " "}
    IN  IF solid = {} THEN <<>> ELSE SubSeq(s, Min(solid), Max(solid))

\* the text of the cell in the 0-based column col of row, "" when there is none
CellText(row, col) ==
    IF row.present /\ col + 1 \in DOMAIN row.cells /\ row.cells[col + 1].t # "null"
    THEN Trimmed(String(row.cells[col + 1]))
    ELSE <<>>

CustomerName(row) == CellText(row, 8)
City(row) == CellText(row, 11)
Ctr(row) == CellText(row, 14)
SearchText(row) == CellText(row, 22) \o <<" ">> \o CellText(row, 26)

StatusLabels == {HighRisk, APRV, ZKWD, ZEMB, ZKWDandZEMB, NoAdd, SPL}

\* the last iteration of the row loop classified rawRow
Classified == pc \in {"loop", "resolved"} /\ i > 0 /\ newRow # <<>>

KeywordHit ==
    \E n \in 1..Len(config.highRiskKeywords) :
        /\ config.highRiskKeywords[n] # <<>>
        /\ OccursIgnoringCase(config.highRiskKeywords[n], CustomerName(rawRow))

CodeHit ==
    \E n \in 1..Len(config.aprvCodes) :
        /\ config.aprvCodes[n] # <<>>
        /\ EqualIgnoringCase(Ctr(rawRow), config.aprvCodes[n])

AnyCodeEqual ==
    \E n \in 1..Len(config.aprvCodes) :
        EqualIgnoringCase(Ctr(rawRow), config.aprvCodes[n])

MarkerZKWD == OccursIgnoringCase(ZKWD, SearchText(rawRow))
MarkerZEMB == OccursIgnoringCase(ZEMB, SearchText(rawRow))

----
\* C1: every classified row gets a status that is exactly one of the seven
\* labels High Risk, APRV, ZKWD, ZEMB, ZKWD & ZEMB, No add, SPL; it is never
\* empty, and it is the first field of every output row of the report.
C1_StatusInEnumeration ==
    /\ Classified => status \in StatusLabels /\ newRow[1] = status
    /\ \A n \in 2..Len(processedRows) : processedRows[n][1] \in StatusLabels

C1_Witness ==
    /\ Classified
    /\ status = SPL
    /\ Len(rawRow.cells) = 27
    /\ Len(processedRows) = 2

\* C2: a row whose customer name contains a (non-empty) high-risk keyword
\* and whose CTR code equals an approved code has the status High Risk,
\* whatever the order of the entries of the two lists.
C2_HighRiskDominatesAPRV ==
    (Classified /\ KeywordHit /\ AnyCodeEqual) => status = HighRisk

C2_Witness ==
    /\ Classified
    /\ KeywordHit
    /\ CodeHit
    /\ Len(config.highRiskKeywords) > 1
    /\ Len(config.aprvCodes) > 1
    /\ status = HighRisk

\* C3: the status is High Risk if and only if a non-empty keyword of
\* config.highRiskKeywords occurs, ignoring case, in the trimmed customer
\* name; an empty keyword never makes a row High Risk.
C3_HighRiskIffKeyword ==
    Classified => (status = HighRisk <=> KeywordHit)

C3_Witness ==
    /\ Classified
    /\ status = HighRisk
    /\ \A n \in 1..Len(config.highRiskKeywords) :
          indexOfFrom(CustomerName(rawRow), config.highRiskKeywords[n], 0) = -1
             \/ config.highRiskKeywords[n] = <<>>
    /\ \E n \in 1..Len(config.highRiskKeywords) : config.highRiskKeywords[n] = <<>>

\* C4 as stated: without a keyword hit, the status is APRV exactly when the
\* CTR code equals, ignoring case, any code of config.aprvCodes, for every
\* code and every CTR value, the empty one included.
C4_Original ==
    (Classified /\ ~KeywordHit) => (status = APRV <=> AnyCodeEqual)

\* C4 amended: without a keyword hit, the status is APRV exactly when the
\* trimmed CTR code equals, ignoring case and as a whole string, a non-empty
\* code of config.aprvCodes; an empty code never makes a row APRV.
C4_APRVIffNonEmptyCode ==
    (Classified /\ ~KeywordHit) => (status = APRV <=> CodeHit)

C4_Witness ==
    /\ Classified
    /\ ~KeywordHit
    /\ status = APRV
    /\ \A n \in 1..Len(config.aprvCodes) : config.aprvCodes[n] # Ctr(rawRow)
    /\ \E n \in 1..Len(config.aprvCodes) : config.aprvCodes[n] = <<>>

\* C5: when the search text A + " " + B contains both markers ZKWD and ZEMB,
\* ignoring case, and neither the High Risk nor the APRV rule fires, the
\* status is "ZKWD & ZEMB".
C5_BothMarkers ==
    (Classified /\ ~KeywordHit /\ ~CodeHit /\ MarkerZKWD /\ MarkerZEMB)
        => status = ZKWDandZEMB

C5_Witness ==
    /\ Classified
    /\ ~KeywordHit
    /\ ~CodeHit
    /\ OccursIgnoringCase(ZKWD, CellText(rawRow, 22))
    /\ ~OccursIgnoringCase(ZEMB, CellText(rawRow, 22))
    /\ OccursIgnoringCase(ZEMB, CellText(rawRow, 26))
    /\ ~OccursIgnoringCase(ZKWD, CellText(rawRow, 26))
    /\ status = ZKWDandZEMB

\* C6: a row with empty city and empty CTR code whose search text contains
\* exactly one of the markers, and for which neither the High Risk nor the
\* APRV rule fires, has that marker's label as status, not "No add".
C6_MarkerNotMasked ==
    (Classified /\ City(rawRow) = <<>> /\ Ctr(rawRow) = <<>>
                /\ ~KeywordHit /\ ~CodeHit)
        => /\ (MarkerZKWD /\ ~MarkerZEMB) => status = ZKWD
           /\ (MarkerZEMB /\ ~MarkerZKWD) => status = ZEMB

C6_Witness ==
    /\ Classified
    /\ City(rawRow) = <<>>
    /\ Ctr(rawRow) = <<>>
    /\ ~KeywordHit
    /\ MarkerZEMB
    /\ ~MarkerZKWD
    /\ status = ZEMB

\* C7: a classified row with empty trimmed city and CTR code for which no
\* keyword, code or marker rule fires has the status "No add", and "No add"
\* is the status of no row whose city or CTR code is non-empty.
C7_NoAdd ==
    Classified =>
        /\ (City(rawRow) = <<>> /\ Ctr(rawRow) = <<>> /\ ~KeywordHit /\ ~CodeHit
               /\ ~MarkerZKWD /\ ~MarkerZEMB) => status = NoAdd
        /\ status = NoAdd => (City(rawRow) = <<>> /\ Ctr(rawRow) = <<>>)

C7_Witness ==
    /\ Classified
    /\ status = NoAdd
    /\ Len(rawRow.cells) = 27
    /\ rawRow.cells[12].v = <<" ">>
    /\ rawRow.cells[15] = Null

\* the rows among the first n of jsonData that satisfy P
CountRows(n, P(_)) == Cardinality({m \in 1..n : P(jsonData[m])})

AllCellsBlank(row) ==
    \A n \in DOMAIN row.cells : row.cells[n].t = "null" \/ row.cells[n].v = <<>>

HasCells(row) == row.present /\ Len(row.cells) > 0
HasContent(row) == row.present /\ ~AllCellsBlank(row)

----
\* Reference scan of the key=value| notation

KeyAt(s, k, p) ==
    /\ p + Len(k) + 1 <= Len(s)
    /\ \A n \in 1..Len(k) : SameLetter(s[p + n], k[n])
    /\ s[p + Len(k) + 1] = "="

\* the 1-based positions of "|" after the "=" of an occurrence at p
BarsAfter(s, k, p) == {b \in (p + Len(k) + 2)..Len(s) : s[b] = "|"}

\* an occurrence at p: key, "=", a run of one or more characters without
\* "|", and "|"
OccurrenceAt(s, k, p) ==
    /\ KeyAt(s, k, p)
    /\ BarsAfter(s, k, p) # {}
    /\ Min(BarsAfter(s, k, p)) > p + Len(k) + 2

RECURSIVE ReferenceScan(_, _, _)
ReferenceScan(s, k, from) ==
    LET starts == {p \in from..Len(s) : OccurrenceAt(s, k, p)}
    IN  IF starts = {} THEN <<>>
        ELSE LET p == Min(starts)
                 bar == Min(BarsAfter(s, k, p))
             IN  <<Trimmed(SubSeq(s, p + Len(k) + 2, bar - 1))>>
                 \o ReferenceScan(s, k, bar)

\* C9 as stated: extractValues never returns an empty string as an element;
\* an occurrence whose value is empty after trimming occupies no position.
C9_NoEmptyElement ==
    epc = "returned" => \A n \in 1..Len(matches) : matches[n] # <<>>

\* C10: extractValues(text, key) is the reference left-to-right scan: the
\* trimmed runs of the non-overlapping occurrences of key, "=", run, "|" in
\* order of occurrence, and the empty sequence when key does not occur.
C10_ReferenceScan ==
    epc = "returned" =>
        /\ matches = ReferenceScan(text, key, 0)
        /\ ~OccursIgnoringCase(key, text) => matches = <<>>

C10_Witness ==
    /\ epc = "returned"
    /\ Len(matches) = 2
    /\ key = <<"K">>
    /\ matches = << <<"K">>, <<"K">> >>


----
\* Vocabulary of the output rows

\* the text handed to the extraction: both search columns, each closed by "|"
CombinedText(row) == CellText(row, 22) \o <<"|">> \o CellText(row, 26) \o <<"|">>

FieldKeys == <<matchname, denialtype, splid>>

\* the five slots of category c (1: match names, 2: denial types, 3: split ids)
SlotsOf(r, c) == SubSeq(r, 2 + 5 * c, 6 + 5 * c)

\* the occurrences of the key of category c in the combined text of row
Occurrences(row, c) == ReferenceScan(CombinedText(row), FieldKeys[c], 0)

\* C11: when the combined search text holds more than 5 occurrences of a
\* field key, the five slots of that category hold the first 5 extracted
\* values in order of occurrence; later ones are dropped, none reordered.
C11_FirstFiveKept ==
    Classified =>
        \A c \in 1..3 :
            Len(Occurrences(rawRow, c)) > 5
                => SlotsOf(newRow, c) = SubSeq(Occurrences(rawRow, c), 1, 5)

C11_Witness ==
    /\ Classified
    /\ Len(Occurrences(rawRow, 3)) = 7
    /\ SlotsOf(newRow, 3) = << <<"1">>, <<"2">>, <<"3">>, <<"4">>, <<"5">> >>
    /\ Len(Occurrences(rawRow, 1)) = 3

\* C12 as stated: every output row has exactly 21 fields, each category
\* fills exactly 5 slots, and in each category all non-empty slots precede
\* the empty ones.
C12_SlotsPadded ==
    \A n \in 2..Len(processedRows) :
        /\ Len(processedRows[n]) = 21
        /\ \A c \in 1..3 : \A a, b \in 1..5 :
              (a < b /\ SlotsOf(processedRows[n], c)[a] = <<>>)
                  => SlotsOf(processedRows[n], c)[b] = <<>>

ExpectedHeader ==
    << <<"S","t","a","t","u","s">>,
       <<"F","i","l","e"," ","n","a","m","e">>,
       <<"R","e","f"," ","N","o">>,
       <<"C","u","s","t","o","m","e","r"," ","N","a","m","e">>,
       <<"C","i","t","y">>,
       <<"C","T","R">>,
       <<"R","P","L"," ","1">>,
       <<"R","P","L"," ","2">>,
       <<"R","P","L"," ","3">>,
       <<"R","P","L"," ","4">>,
       <<"R","P","L"," ","5">>,
       <<"D","e","n","i","a","l"," ","T","y","p","e"," ","1">>,
       <<"D","e","n","i","a","l"," ","T","y","p","e"," ","2">>,
       <<"D","e","n","i","a","l"," ","T","y","p","e"," ","3">>,
       <<"D","e","n","i","a","l"," ","T","y","p","e"," ","4">>,
       <<"D","e","n","i","a","l"," ","T","y","p","e"," ","5">>,
       <<"S","p","l","i","d"," ","1">>,
       <<"S","p","l","i","d"," ","2">>,
       <<"S","p","l","i","d"," ","3">>,
       <<"S","p","l","i","d"," ","4">>,
       <<"S","p","l","i","d"," ","5">> >>

\* the indices, in order, of the rows among the first n that have cells
RECURSIVE KeptRows(_)
KeptRows(n) ==
    IF n = 0 THEN <<>>
    ELSE IF HasCells(jsonData[n]) THEN Append(KeptRows(n - 1), n)
    ELSE KeptRows(n - 1)

PassThrough(row) ==
    <<CellText(row, 2), CellText(row, 3), CellText(row, 8),
      CellText(row, 11), CellText(row, 14)>>

\* C13: the report is the fixed header of 21 labels followed by exactly one
\* output row per non-skipped input row, in input order; the first input
\* row is transformed like every other row.
C13_HeaderThenRowsInOrder ==
    pc \in {"loop", "resolved"} =>
        /\ processedRows[1] = ExpectedHeader
        /\ Len(processedRows) = 1 + Len(KeptRows(i))
        /\ \A n \in 1..Len(KeptRows(i)) :
              /\ Len(processedRows[n + 1]) = 21
              /\ SubSeq(processedRows[n + 1], 2, 6)
                    = PassThrough(jsonData[KeptRows(i)[n]])

C13_Witness ==
    /\ pc = "resolved"
    /\ Len(jsonData) = 2
    /\ Len(processedRows) = 3
    /\ processedRows[2][5] = <<"O","s","l","o">>
    /\ processedRows[3][4] = <<"a"," ","s","A","n">>

MappedColumns == <<2, 3, 8, 11, 14>>

\* one step of the row loop never rejects, and a row that has cells yields
\* a complete output row whose out-of-range columns read as ""
C16_Step ==
    pc = "loop" =>
        /\ pc' \in {"loop", "resolved"}
        /\ err' = ""
        /\ (i' = i + 1 /\ HasCells(jsonData[i + 1])) =>
              /\ processedRows' = Append(processedRows, newRow')
              /\ Len(newRow') = 21
              /\ newRow'[1] \in StatusLabels
              /\ \A n \in 1..5 :
                    MappedColumns[n] >= Len(jsonData[i + 1].cells)
                        => newRow'[n + 1] = <<>>
              /\ Len(jsonData[i + 1].cells) <= 22
                    => \A c \in 1..3 : SlotsOf(newRow', c) = <<<<>>, <<>>, <<>>, <<>>, <<>>>>

\* C16: there is no per-row failure: for any non-empty row sequence (short
\* rows, null cells, numbers, malformed text) the transformation raises no
\* error and every non-skipped row yields a complete output row in which
\* out-of-range columns read as the empty string.
C16_NoPerRowFailure == [][C16_Step]_vars

C16_Witness ==
    /\ Classified
    /\ Len(rawRow.cells) = 3
    /\ Len(newRow) = 21
    /\ status = NoAdd
    /\ i = 2
    /\ Len(processedRows) = 3

\* row with every column that is not mapped removed
MappedOnly(row) ==
    [present |-> TRUE,
     cells |-> [n \in 1..27 |->
                  IF n \in {3, 4, 9, 12, 15, 23, 27} /\ n <= Len(row.cells)
                  THEN row.cells[n] ELSE Null]]

\* C18: fields 2 to 6 of an output row are the trimmed texts of the input
\* columns 2, 3, 8, 11 and 14, the search text is read from columns 22 and
\* 26 only, and no other input column influences the output row.
C18_FixedColumnMapping ==
    Classified =>
        /\ SubSeq(newRow, 2, 6) = PassThrough(rawRow)
        /\ newRow = NewRow(config, MappedOnly(rawRow))

C18_Witness ==
    /\ Classified
    /\ Len(rawRow.cells) >= 22
    /\ rawRow.cells[22] = Str(<<"Z","K","W","D"," ","s","a","n"," ","R","U"," ","s","p","l","i","d","=","9","|">>)
    /\ config.highRiskKeywords = << <<"S","A","N">> >>
    /\ config.aprvCodes = << <<"R","U">> >>
    /\ status = SPL
    /\ SlotsOf(newRow, 3) = <<<<>>, <<>>, <<>>, <<>>, <<>>>>

FirstFive(q) ==
    <<IF Len(q) >= 1 THEN q[1] ELSE <<>>, IF Len(q) >= 2 THEN q[2] ELSE <<>>,
      IF Len(q) >= 3 THEN q[3] ELSE <<>>, IF Len(q) >= 4 THEN q[4] ELSE <<>>,
      IF Len(q) >= 5 THEN q[5] ELSE <<>> >>

\* the occurrences of key k in one search column closed by "|"
ColumnOccurrences(row, col, k) == ReferenceScan(CellText(row, col) \o <<"|">>, k, 0)

\* C19: each search column is closed by a delimiter of its own: a final
\* key=value at the end of either column that lacks its "|" is extracted,
\* and no extracted value holds text of both columns.
C19_ColumnsClosedSeparately ==
    Classified =>
        \A c \in 1..3 :
            SlotsOf(newRow, c)
                = FirstFive(ColumnOccurrences(rawRow, 22, FieldKeys[c])
                              \o ColumnOccurrences(rawRow, 26, FieldKeys[c]))

C19_Witness ==
    /\ Classified
    /\ CellText(rawRow, 22) = <<"d","e","n","i","a","l","t","y","p","e","=","F">>
    /\ CellText(rawRow, 26) = <<"x","|","d","e","n","i","a","l","t","y","p","e","=","G">>
    /\ SlotsOf(newRow, 2) = << <<"F">>, <<"G">>, <<>>, <<>>, <<>> >>


----
\* getCellValue, called on its own

ArgCells ==
    { Null, Str(<<>>), Str(<<" "," ">>), Str(<<" ","a"," ">>), Str(<<"a"," ","b">>), Num(0), Num(12) }

ArgRows == {AbsentRow} \cup {Row(cells) : cells \in SeqsUpTo(ArgCells, MaxCells)}

InitCell ==
    /\ ProcIdle
    /\ ExtractIdle
    /\ AppIdle
    /\ argRow \in ArgRows
    /\ argIndex \in (-2)..MaxIndex
    /\ cellValue = <<>>
    /\ gpc = "call"

GetCellValue ==
    /\ gpc = "call"
    /\ cellValue' = getCellValue(argRow, argIndex)
    /\ gpc' = "returned"
    /\ UNCHANGED <<argRow, argIndex>>
    /\ UNCHANGED <<procVars, extractVars, appVars>>

NextCell == GetCellValue

SpecCell == InitCell /\ [][NextCell]_vars

\* the decimal form of a number below 100
DecimalText(n) ==
    IF n < 10 THEN <<Digits[n + 1]>>
    ELSE <<Digits[(n \div 10) + 1], Digits[(n % 10) + 1]>>

StringForm(cell) == IF cell.t = "num" THEN DecimalText(cell.v[1]) ELSE cell.v

\* C17: getCellValue returns "" when the row is absent, the index is
\* negative or not below the length of the row, or the cell is null or
\* undefined; otherwise the string form of the cell without its leading
\* and trailing white space.
C17_GetCellValue ==
    gpc = "returned" =>
        cellValue =
            IF \/ ~argRow.present
               \/ argIndex < 0
               \/ argIndex >= Len(argRow.cells)
            THEN <<>>
            ELSE IF argRow.cells[argIndex + 1].t = "null" THEN <<>>
            ELSE Trimmed(StringForm(argRow.cells[argIndex + 1]))

C17_Witness ==
    /\ gpc = "returned"
    /\ argIndex = 1
    /\ Len(argRow.cells) = 2
    /\ argRow.cells[2] = Str(<<" ","a"," ">>)
    /\ cellValue = <<"a">>

----
\* extractValues, called several times

CallTexts ==
    { <<>>,
      <<"K","=","k">>,
      <<"k","=","K","|">>,
      <<"k","=","K","|","K","="," ","k"," ","|">>,
      <<" ","k","=","|","k","="," ","K","|","x">> }

InitCalls ==
    /\ ProcIdle
    /\ CellIdle
    /\ AppIdle
    /\ text \in CallTexts
    /\ key \in ExtractKeys
    /\ lastIndex = 0
    /\ matches = <<>>
    /\ epc = "exec"
    /\ calls = <<>>

\* variant: the regex and the array matches are created once, outside the
\* function
ExtractCall_Shared ==
    /\ epc = "returned"
    /\ Len(calls) < MaxCalls
    /\ \E t \in CallTexts, k \in ExtractKeys :
          /\ text' = t
          /\ key' = k
    /\ epc' = "exec"
    /\ UNCHANGED <<lastIndex, matches, calls>>
    /\ UNCHANGED <<procVars, cellVars, appVars>>

\* a further call extractValues(t, k): a new regex and a new array matches
ExtractCall ==
    /\ epc = "returned"
    /\ Len(calls) < MaxCalls
    /\ \E t \in CallTexts, k \in ExtractKeys :
          /\ text' = t
          /\ key' = k
    /\ lastIndex' = 0
    /\ matches' = <<>>
    /\ epc' = "exec"
    /\ UNCHANGED calls
    /\ UNCHANGED <<procVars, cellVars, appVars>>

NextCalls == ExecMatch \/ ExecNull \/ ExtractCall

SpecCalls == InitCalls /\ [][NextCalls]_vars

\* C20: two calls of extractValues on the same text and key return the
\* same sequence, whatever calls for other keys or texts run between them;
\* no scan position is left over when a call returns.
C20_Idempotent ==
    /\ \A a, b \in 1..Len(calls) :
          (calls[a].text = calls[b].text /\ calls[a].key = calls[b].key)
              => calls[a].result = calls[b].result
    /\ epc = "returned" => lastIndex = 0

C20_Witness ==
    /\ Len(calls) = 3
    /\ calls[1].text = <<"k","=","K","|","K","="," ","k"," ","|">>
    /\ calls[3].text = calls[1].text
    /\ calls[3].key = calls[1].key
    /\ calls[2].text # calls[1].text
    /\ calls[2].key # calls[1].key
    /\ Len(calls[2].result) = 1
    /\ Len(calls[3].result) = 2


----
\* App: the state machine of file, processing, processedData and error

DEFAULT_APRV_CODES ==
    << <<"R","U">>, <<"U","A">>, <<"N","I">>, <<"V","E">>, <<"B","Y">>, <<"C","U">>, <<"I","R">>, <<"K","P">>, <<"S","Y">> >>

DEFAULT_RISK_KEYWORDS ==
    << <<"S","A","N","C","T","I","O","N">>,
       <<"E","M","B","A","R","G","O">>,
       <<"D","E","N","I","E","D">> >>

AppConfig ==
    [highRiskKeywords |-> DEFAULT_RISK_KEYWORDS, aprvCodes |-> DEFAULT_APRV_CODES]

\* the files the user can select: a name and the workbook XLSX.read yields
AppFiles ==
    { [name |-> "a.xlsx",
       wb |-> [hasData |-> TRUE, nSheets |-> 1,
               rows |-> << MkRow(15, Str(<<"E","m","b","a","r","g","o"," ","L","t","d">>), Str(<<"O","s","l","o">>),
                                 Str(<<"R","U">>), Null, Null) >>]],
      [name |-> "b.xlsx",
       wb |-> [hasData |-> TRUE, nSheets |-> 1,
               rows |-> << Row(<<>>),
                           MkRow(27, Str(<<"A","c","m","e">>), Null, Str(<<"u","a">>),
                                 Str(<<"z","k","w","d">>), Null) >>]],
      [name |-> "c.xlsx",
       wb |-> [hasData |-> TRUE, nSheets |-> 1, rows |-> <<>>]],
      [name |-> "d.xlsx",
       wb |-> [hasData |-> TRUE, nSheets |-> 0, rows |-> <<>>]] }

InitApp ==
    /\ ProcIdle
    /\ ExtractIdle
    /\ CellIdle
    /\ AppIdle

\* variant: the file input stays reachable while processing
HandleFileChange_NoGuard ==
    /\ processedData = <<>>
    /\ \E f \in AppFiles :
          /\ file' = <<f>>
          /\ processedData' = <<>>
          /\ error' = <<>>
    /\ UNCHANGED <<processing, apc, download, runFile>>
    /\ UNCHANGED <<procVars, extractVars, cellVars, tagVars>>

\* handleFileChange, reachable through the file input of the upload view,
\* whose label ignores the pointer while processing
HandleFileChange ==
    /\ processedData = <<>>
    /\ ~processing
    /\ \E f \in AppFiles :
          /\ file' = <<f>>
          /\ processedData' = <<>>
          /\ error' = <<>>
    /\ UNCHANGED <<processing, apc, download, runFile>>
    /\ UNCHANGED <<procVars, extractVars, cellVars, tagVars>>

\* variant: the error of the previous run is not cleared
HandleProcess_KeepError ==
    /\ processedData = <<>>
    /\ file # <<>>
    /\ ~processing
    /\ processing' = TRUE
    /\ processedData' = <<>>
    /\ apc' = "delay"
    /\ runFile' = file
    /\ UNCHANGED <<file, error, download>>
    /\ UNCHANGED <<procVars, extractVars, cellVars, tagVars>>

\* handleProcess up to its first await; the button is rendered in the
\* upload view and disabled when !file || processing
HandleProcess ==
    /\ processedData = <<>>
    /\ file # <<>>
    /\ ~processing
    /\ processing' = TRUE
    /\ error' = <<>>
    /\ processedData' = <<>>
    /\ apc' = "delay"
    /\ runFile' = file
    /\ UNCHANGED <<file, download>>
    /\ UNCHANGED <<procVars, extractVars, cellVars, tagVars>>

\* the timeout elapsed: processExcelFile(file, config) is called
CallProcessExcelFile ==
    /\ apc = "delay"
    /\ apc' = "await"
    /\ pc' = "reading"
    /\ config' = AppConfig
    /\ jsonData' = <<>>
    /\ i' = 0
    /\ rawRow' = AbsentRow
    /\ status' = <<>>
    /\ newRow' = <<>>
    /\ processedRows' = <<>>
    /\ err' = ""
    /\ UNCHANGED <<file, processing, processedData, error, download, runFile>>
    /\ UNCHANGED <<extractVars, cellVars, tagVars>>

\* reader.onload for the selected file
AppReaderOnLoad ==
    /\ apc = "await"
    /\ pc = "reading"
    /\ OnLoad(runFile[1].wb)
    /\ UNCHANGED <<extractVars, cellVars, appVars>>

\* the promise resolved: setProcessedData(result), then finally
ProcessResolved ==
    /\ apc = "await"
    /\ pc = "resolved"
    /\ processedData' = <<processedRows>>
    /\ processing' = FALSE
    /\ apc' = "idle"
    /\ UNCHANGED <<file, error, download, runFile>>
    /\ UNCHANGED <<procVars, extractVars, cellVars, tagVars>>

\* variant: setProcessing(false) follows the try block and is not in finally
ProcessRejected_NoFinally ==
    /\ apc = "await"
    /\ pc = "rejected"
    /\ error' = <<IF err # "" THEN err
                   ELSE "An error occurred while processing the file.">>
    /\ apc' = "idle"
    /\ UNCHANGED <<file, processing, processedData, download, runFile>>
    /\ UNCHANGED <<procVars, extractVars, cellVars, tagVars>>

\* the promise rejected: setError(err.message || ...), then finally
ProcessRejected ==
    /\ apc = "await"
    /\ pc = "rejected"
    /\ error' = <<IF err # "" THEN err
                   ELSE "An error occurred while processing the file.">>
    /\ processing' = FALSE
    /\ apc' = "idle"
    /\ UNCHANGED <<file, processedData, download, runFile>>
    /\ UNCHANGED <<procVars, extractVars, cellVars, tagVars>>

\* handleDownload, reachable through the button of the download view
HandleDownload ==
    /\ processedData # <<>>
    /\ download' = <<[name |-> IF file # <<>> THEN file[1].name ELSE "Report.xlsx",
                       data |-> processedData[1]]>>
    /\ UNCHANGED <<file, processing, processedData, error, apc, runFile>>
    /\ UNCHANGED <<procVars, extractVars, cellVars, tagVars>>

\* handleReset, reachable through the button of the download view
HandleReset ==
    /\ processedData # <<>>
    /\ file' = <<>>
    /\ processedData' = <<>>
    /\ error' = <<>>
    /\ UNCHANGED <<processing, apc, download, runFile>>
    /\ UNCHANGED <<procVars, extractVars, cellVars, tagVars>>

\* the button of the error toast: setError(null)
DismissError ==
    /\ processedData = <<>>
    /\ error # <<>>
    /\ error' = <<>>
    /\ UNCHANGED <<file, processing, processedData, apc, download, runFile>>
    /\ UNCHANGED <<procVars, extractVars, cellVars, tagVars>>

NextApp ==
    \/ DismissError
    \/ HandleFileChange
    \/ HandleProcess
    \/ CallProcessExcelFile
    \/ ReaderOnError
    \/ AppReaderOnLoad
    \/ RowStep
    \/ Resolve
    \/ ProcessResolved
    \/ ProcessRejected
    \/ HandleDownload
    \/ HandleReset

SpecApp == InitApp /\ [][NextApp]_vars

C15_Step ==
    /\ ~(error' # <<>> /\ processedData' # <<>>)
    /\ (apc = "await" /\ apc' = "idle" /\ error' # <<>>)
          => (processedData' = <<>> /\ ~processing')

\* C15: a failed run produces no downloadable output: when handleProcess
\* ends with an error processedData is null, and in no reachable state are
\* error and processedData both non-null.
C15_FailedRunNoOutput == [][C15_Step]_vars

C15_Witness ==
    /\ apc = "idle"
    /\ ~processing
    /\ error = <<"The selected Excel sheet is empty.">>
    /\ processedData = <<>>
    /\ file # <<>>
    /\ download # <<>>


----
\* processExcelFile over sheets whose rows repeat the same mapped texts in
\* different cells, lengths and positions

PairRows ==
    { AbsentRow,
      Row(<<>>),
      MkRowFill(27, Null, Null, Null, Str(<<"a"," ","s","A","n">>), Str(<<>>), Str(<<"R","U">>),
                Str(<<"Z","E","M","B">>), Null),
      MkRowFill(30, Str(<<"Z","K","W","D"," ","s","a","n"," ","R","U">>), Str(<<"x">>), Num(3), Str(<<" ","a"," ","s","A","n"," ">>), Null,
                Str(<<" ","R","U">>), Str(<<" ","Z","E","M","B"," ">>), Str(<<>>)),
      MkRowFill(27, Null, Null, Null, Str(<<"A","c","m","e">>), Null, Num(7),
                Null, Str(<<"z","k","w","d">>)),
      MkRowFill(28, Str(<<"s","a","n"," ","Z","E","M","B"," ","R","U">>), Num(1), Null, Str(<<"A","c","m","e"," ">>), Str(<<" ">>),
                Str(<<"7">>), Str(<<>>), Str(<<"z","k","w","d"," ">>)),
      Row(<<Null>>),
      MkRowFill(27, Str(<<"R","U"," ","s","a","n"," ","z","k","w","d">>), Str(<<"q">>), Str(<<"r">>), Null, Str(<<" ">>),
                Null, Str(<<>>), Null) }

PairSheets == SeqsUpTo(PairRows, MaxPairRows) \ {<<>>}

PairConfigs ==
    { [highRiskKeywords |-> kws, aprvCodes |-> codes] :
        kws \in { <<>>, << <<"S","A","N">> >> },
        codes \in { <<>>, << <<"R","U">> >>, << <<"7">>, <<"R">> >> } }

InitPairs ==
    /\ pc = "reading"
    /\ config \in PairConfigs
    /\ jsonData = <<>>
    /\ i = 0
    /\ rawRow = AbsentRow
    /\ status = <<>>
    /\ newRow = <<>>
    /\ processedRows = <<>>
    /\ err = ""
    /\ ExtractIdle
    /\ CellIdle
    /\ AppIdle

\* reader.onload for one of the sheets of repeated rows
PairsOnLoad ==
    /\ pc = "reading"
    /\ \E sh \in PairSheets : OnLoad([hasData |-> TRUE, nSheets |-> 1, rows |-> sh])
    /\ UNCHANGED <<extractVars, cellVars, appVars>>

NextPairs == PairsOnLoad \/ RowStep \/ Resolve

SpecPairs == InitPairs /\ [][NextPairs]_vars

\* the two rows hold the same text in columns 8, 11, 14, 22 and 26
SameInputs(r1, r2) ==
    \A c \in {8, 11, 14, 22, 26} : CellText(r1, c) = CellText(r2, c)

\* C21: classification is a function of the five mapped texts and the
\* configuration: within a run, any two transformed rows that agree on
\* columns 8, 11, 14, 22 and 26 carry the same status, whatever their other
\* cells, their position and the rows before them.
C21_SameInputsSameStatus ==
    pc \in {"loop", "resolved"} =>
        \A m, n \in 1..Len(KeptRows(i)) :
            SameInputs(jsonData[KeptRows(i)[m]], jsonData[KeptRows(i)[n]])
                => processedRows[m + 1][1] = processedRows[n + 1][1]

C21_Witness ==
    /\ pc = "resolved"
    /\ Len(jsonData) = 3
    /\ Len(processedRows) = 4
    /\ jsonData[1] # jsonData[3]
    /\ Len(jsonData[1].cells) # Len(jsonData[3].cells)
    /\ SameInputs(jsonData[1], jsonData[3])
    /\ ~SameInputs(jsonData[1], jsonData[2])
    /\ processedRows[2][1] = HighRisk
    /\ processedRows[3][1] = ZKWD
    /\ processedRows[4][1] = HighRisk


----
\* processExcelFile with the three extractValues calls of a row taken one
\* regex.exec call at a time

StepRows ==
    { AbsentRow,
      Row(<<>>),
      Row(<<Null>>),
      MkRow(23, Str(<<"M","e">>), Str(<<"x">>), Null, Str(<<"s","p","l","i","d","="," ","|","s","p","l","i","d","=">>), Null),
      MkRow(27, Null, Null, Str(<<"R","U">>),
            Str(<<"s","p","l","i","d","=","1","|","S","p","l","i","d","="," ","2"," ">>),
            Str(<<"d","e","n","i","a","l","t","y","p","e","=","F">>)) }

StepSheets == SeqsUpTo(StepRows, MaxStepRows)

StepConfigs ==
    { [highRiskKeywords |-> <<>>, aprvCodes |-> <<>>],
      [highRiskKeywords |-> << <<"m","e">> >>, aprvCodes |-> << <<"r","u">> >>] }

InitSteps ==
    /\ pc = "reading"
    /\ config \in StepConfigs
    /\ jsonData = <<>>
    /\ i = 0
    /\ rawRow = AbsentRow
    /\ status = <<>>
    /\ newRow = <<>>
    /\ processedRows = <<>>
    /\ err = ""
    /\ ExtractIdle
    /\ CellIdle
    /\ AppIdle

\* reader.onload up to the start of the row loop
StepsOnLoad ==
    /\ pc = "reading"
    /\ \E sh \in StepSheets : OnLoad([hasData |-> TRUE, nSheets |-> 1, rows |-> sh])
    /\ UNCHANGED <<extractVars, cellVars, appVars>>

\* an iteration begins: the row is skipped, or it is read and classified and
\* extractValues is entered for the first key
RowEnter ==
    /\ pc = "loop"
    /\ i < Len(jsonData)
    /\ rawRow' = jsonData[i + 1]
    /\ IF SkipRow(jsonData[i + 1])
       THEN /\ status' = <<>>
            /\ newRow' = <<>>
            /\ i' = i + 1
            /\ UNCHANGED <<pc, extractVars>>
       ELSE LET row == jsonData[i + 1]
            IN  /\ \E rawI \in {getCellValue(row, 8)}, rawL \in {getCellValue(row, 11)},
                      rawO \in {getCellValue(row, 14)}, rawW \in {getCellValue(row, 22)},
                      rawAA \in {getCellValue(row, 26)} :
                      /\ status' = StatusOf(config, rawI, rawL, rawO, rawW, rawAA)
                      /\ text' = rawCombined(rawW, rawAA)
                /\ pc' = "row"
                /\ key' = matchname
                /\ lastIndex' = 0
                /\ matches' = <<>>
                /\ epc' = "exec"
                /\ calls' = <<>>
                /\ UNCHANGED <<i, newRow>>
    /\ UNCHANGED <<config, jsonData, processedRows, err>>
    /\ UNCHANGED <<cellVars, appVars>>

\* extractValues returned and is entered for the next key
NextKey ==
    /\ pc = "row"
    /\ epc = "returned"
    /\ Len(calls) < 3
    /\ key' = IF Len(calls) = 1 THEN denialtype ELSE splid
    /\ lastIndex' = 0
    /\ matches' = <<>>
    /\ epc' = "exec"
    /\ UNCHANGED <<text, calls>>
    /\ UNCHANGED <<procVars, cellVars, appVars>>

\* the third extractValues call returned: the output row is pushed
RowExit ==
    /\ pc = "row"
    /\ epc = "returned"
    /\ Len(calls) = 3
    /\ newRow' = <<status, getCellValue(rawRow, 2), getCellValue(rawRow, 3),
                   getCellValue(rawRow, 8), getCellValue(rawRow, 11),
                   getCellValue(rawRow, 14)>>
                 \o Slots(calls[1].result) \o Slots(calls[2].result)
                 \o Slots(calls[3].result)
    /\ processedRows' = Append(processedRows, newRow')
    /\ i' = i + 1
    /\ pc' = "loop"
    /\ epc' = "idle"
    /\ text' = <<>>
    /\ key' = <<>>
    /\ matches' = <<>>
    /\ calls' = <<>>
    /\ UNCHANGED <<lastIndex, config, jsonData, rawRow, status, err>>
    /\ UNCHANGED <<cellVars, appVars>>

\* the steps of the synchronous code of reader.onload
RunSteps == RowEnter \/ ExecMatch \/ ExecNull \/ NextKey \/ RowExit \/ Resolve

NextSteps == ReaderOnError \/ StepsOnLoad \/ RunSteps

SpecSteps == InitSteps /\ [][NextSteps]_vars /\ WF_vars(RunSteps)

\* the row built from the stepwise calls is the row NewRow computes
StepsAgree == (pc = "loop" /\ i > 0 /\ newRow # <<>>) => newRow = NewRow(config, rawRow)

C22_Step ==
    /\ i' # i => (i' = i + 1 /\ i' <= Len(jsonData))
    /\ (epc = "exec" /\ epc' = "exec") => (lastIndex < lastIndex' /\ lastIndex' <= Len(text))

\* C22: once the row loop has begun over a non-empty row sequence the run
\* ends, resolved with the report or rejected; the loop index moves one row
\* forward at a time, every exec match moves lastIndex forward within the
\* text, and every extract scan for each of the three keys returns.
C22_Terminates ==
    /\ [][C22_Step]_vars
    /\ (pc \in {"loop", "row"}) ~> (pc \in {"resolved", "rejected"})
    /\ (epc = "exec") ~> (epc = "returned")

C22_Witness ==
    /\ pc = "resolved"
    /\ Len(jsonData) = 2
    /\ i = 2
    /\ Len(processedRows) = 3
    /\ SubSeq(processedRows[3], 17, 21) = << <<"1">>, <<"2">>, <<>>, <<>>, <<>> >>
    /\ SubSeq(processedRows[3], 12, 13) = << <<"F">>, <<>> >>


----
\* TagInput: the tag list of the configuration panel and its input field

isSeparator(c) == c = "\n" \/ c = ","

\* paste.split(/[\n,]+/)
RECURSIVE split(_)
split(s) ==
    LET seps == {n \in 1..Len(s) : isSeparator(s[n])}
    IN  IF seps = {} THEN <<s>>
        ELSE LET first == CHOOSE n \in seps : \A m \in seps : n <= m
                 after == CHOOSE n \in first..(Len(s) + 1) :
                              /\ \A m \in first..(n - 1) : isSeparator(s[m])
                              /\ n = Len(s) + 1 \/ ~isSeparator(s[n])
             IN  <<SubSeq(s, 1, first - 1)>> \o split(SubSeq(s, after, Len(s)))

\* .map(t => t.trim())
RECURSIVE mapTrim(_)
mapTrim(q) == IF q = <<>> THEN <<>> ELSE <<trim(Head(q))>> \o mapTrim(Tail(q))

\* .filter(Boolean)
filterBoolean(q) == SelectSeq(q, LAMBDA t : t # <<>>)

tagsInclude(list, t) == \E n \in 1..Len(list) : list[n] = t

\* .replace(/,/g, '')
removeCommas(s) == SelectSeq(s, LAMBDA c : c # ",")

\* strings of up to n characters of the alphabet
RECURSIVE Strings(_, _)
Strings(alphabet, n) ==
    IF n = 0 THEN {<<>>}
    ELSE LET shorter == Strings(alphabet, n - 1)
         IN  shorter \cup {Append(q, c) : q \in shorter, c \in alphabet}

InputTexts == Strings({"a", "b", ",", " "}, MaxInput)
PasteTexts == Strings({"a", ",", " ", "\n"}, MaxPaste)

StartTags == { <<>>, << <<"a">> >>, << <<"b">>, <<"a","b">> >> }

InitTags ==
    /\ ProcIdle
    /\ ExtractIdle
    /\ CellIdle
    /\ file = <<>>
    /\ processing = FALSE
    /\ processedData = <<>>
    /\ error = <<>>
    /\ apc = "idle"
    /\ download = <<>>
    /\ runFile = <<>>
    /\ tags \in StartTags
    /\ inputValue = <<>>

\* onChange of the input field: setInputValue(e.target.value)
SetInputValue ==
    /\ \E v \in InputTexts : inputValue' = v
    /\ UNCHANGED tags
    /\ UNCHANGED <<file, processing, processedData, error, apc, download, runFile>>
    /\ UNCHANGED <<procVars, extractVars, cellVars>>

\* addTag, called for the Enter key, the comma key and onBlur
AddTag ==
    /\ LET trimmed == removeCommas(trim(inputValue))
       IN  IF trimmed # <<>> /\ ~tagsInclude(tags, trimmed)
           THEN /\ Len(tags) < MaxTags
                /\ tags' = Append(tags, trimmed)
                /\ inputValue' = <<>>
           ELSE UNCHANGED <<tags, inputValue>>
    /\ UNCHANGED <<file, processing, processedData, error, apc, download, runFile>>
    /\ UNCHANGED <<procVars, extractVars, cellVars>>

\* removeTag(tagToRemove)
removeTag(list, tagToRemove) == SelectSeq(list, LAMBDA tag : tag # tagToRemove)

\* the Backspace key in the empty input field removes the last tag
KeyBackspace ==
    /\ inputValue = <<>>
    /\ Len(tags) > 0
    /\ tags' = removeTag(tags, tags[Len(tags)])
    /\ UNCHANGED inputValue
    /\ UNCHANGED <<file, processing, processedData, error, apc, download, runFile>>
    /\ UNCHANGED <<procVars, extractVars, cellVars>>

\* the X button of a tag
ClickRemove ==
    /\ \E n \in 1..Len(tags) : tags' = removeTag(tags, tags[n])
    /\ UNCHANGED inputValue
    /\ UNCHANGED <<file, processing, processedData, error, apc, download, runFile>>
    /\ UNCHANGED <<procVars, extractVars, cellVars>>

\* handlePaste for the clipboard text paste
HandlePaste ==
    /\ \E paste \in PasteTexts :
          LET newTags == filterBoolean(mapTrim(split(paste)))
              uniqueNewTags == SelectSeq(newTags, LAMBDA t : ~tagsInclude(tags, t))
          IN  IF Len(newTags) > 0 /\ Len(uniqueNewTags) > 0
              THEN /\ Len(tags) + Len(uniqueNewTags) <= MaxTags
                   /\ tags' = tags \o uniqueNewTags
              ELSE UNCHANGED tags
    /\ UNCHANGED inputValue
    /\ UNCHANGED <<file, processing, processedData, error, apc, download, runFile>>
    /\ UNCHANGED <<procVars, extractVars, cellVars>>

NextTags == SetInputValue \/ AddTag \/ KeyBackspace \/ ClickRemove \/ HandlePaste

SpecTags == InitTags /\ [][NextTags]_vars

\* C23 as stated: the tag list holds no string twice and never holds the
\* empty string, after any sequence of TagInput operations from a
\* duplicate-free list.
C23_NoDuplicateTags ==
    /\ \A m, n \in 1..Len(tags) : m # n => tags[m] # tags[n]
    /\ \A n \in 1..Len(tags) : tags[n] # <<>>


----
\* the report a finished run over the rows yields under the default lists
RECURSIVE ReportRows(_)
ReportRows(rows) ==
    IF rows = <<>> THEN <<>>
    ELSE IF HasCells(Head(rows))
         THEN <<NewRow(AppConfig, Head(rows))>> \o ReportRows(Tail(rows))
         ELSE ReportRows(Tail(rows))

ReportOf(f) == <<ExpectedHeader>> \o ReportRows(f.wb.rows)

\* processedData, when set, is the report of the selected file and no run
\* is in progress; a download carries the report of the file it is named by
ResultOfSelectedFile ==
    /\ processedData # <<>> =>
          /\ file # <<>>
          /\ ~processing
          /\ apc = "idle"
          /\ processedData[1] = ReportOf(file[1])
    /\ download # <<>> =>
          \E f \in AppFiles :
              /\ f.name = download[1].name
              /\ download[1].data = ReportOf(f)

C24_Step ==
    /\ ResultOfSelectedFile'
    /\ file' # file => (processedData' = <<>> /\ error' = <<>>)
    /\ (~processing /\ processing') => (file # <<>> /\ apc = "idle" /\ file' = file)
    /\ (processing /\ processing') => (apc # "idle" /\ apc' # "idle" /\ file' = file)

\* C24: whenever processedData is non-null it is the result of a finished
\* run over the currently selected file; selecting a file or resetting
\* clears processedData and error; a run starts only with a file and with
\* no run in progress; a download never pairs the name of one file with the
\* report of another file or run.
C24_ResultOfSelectedFile == [][C24_Step]_vars

C24_Witness ==
    /\ download # <<>>
    /\ download[1].name = "a.xlsx"
    /\ file # <<>>
    /\ file[1].name = "b.xlsx"
    /\ processedData # <<>>
    /\ processedData[1] # download[1].data
    /\ Len(processedData[1]) = 2


----
\* App under the scheduling of the runtime: the timer fires, the FileReader
\* fires load or error, and the code after each await runs

RunApp ==
    \/ CallProcessExcelFile
    \/ ReaderOnError
    \/ AppReaderOnLoad
    \/ RowStep
    \/ Resolve
    \/ ProcessResolved
    \/ ProcessRejected

SpecAppLive == InitApp /\ [][NextApp]_vars /\ WF_vars(RunApp)

Settled == pc \in {"resolved", "rejected"}

C25_Step ==
    /\ (processing /\ ~processing') =>
          /\ Settled
          /\ pc = "resolved" => (processedData' = <<processedRows>> /\ error' = <<>>)
          /\ pc = "rejected" => (error' # <<>> /\ processedData' = <<>>)
    /\ (processing /\ processing') => (processedData' = <<>> /\ error' = <<>>)
    /\ (apc # "idle" /\ apc' = "idle") => ~processing'
    /\ (Settled /\ pc' # pc) => (pc' = "reading" /\ apc = "delay")

\* C25: every run started by handleProcess ends: processing, once true,
\* becomes false again, and at that step exactly one outcome is recorded,
\* processedData with error null after the promise resolved or error with
\* processedData null after it rejected (a throw while processing or a
\* failed read); a settled promise does not change its state again.
C25_RunEnds ==
    /\ processing ~> ~processing
    /\ [][C25_Step]_vars

C25_Witness ==
    /\ ~processing
    /\ apc = "idle"
    /\ pc = "rejected"
    /\ error = <<"File reading failed">>
    /\ processedData = <<>>
    /\ download # <<>>
    /\ file # <<>>
    /\ file[1].name = "a.xlsx"

====
